---- MODULE Spec2Model ----
(***************************************************************************)
(* A model of squishy-mailer-lite's persistence layer                       *)
(* (internal/store/sqlite3): the Store with its two database handles, the   *)
(* Repository operations, the transaction wrapper execTx and SetTemplate.   *)
(*                                                                          *)
(* One step of the model is one SQL statement (or one database/sql call:    *)
(* BeginTx, Commit, Rollback) issued by one caller; the Go code between two *)
(* statements only touches the call's local variables and is folded into    *)
(* the step before it.                                                      *)
(*                                                                          *)
(* The storage engine is SQLite in its default rollback-journal mode: a     *)
(* transaction takes a SHARED lock with its first read and a RESERVED lock  *)
(* with its first write, a commit needs every other SHARED lock gone, and a *)
(* transaction that holds SHARED and cannot get RESERVED is refused at once *)
(* with SQLITE_BUSY.  A statement that waits (for a connection of its       *)
(* handle, or in the busy handler) is a step that is not yet enabled.       *)
(*                                                                          *)
(* Time is counted in microseconds, the precision store.Datetime keeps.     *)
(* Every row written reads time.Now() later than every earlier write: two   *)
(* writes are at least one statement round trip apart.                      *)
(***************************************************************************)
EXTENDS Integers, FiniteSets, Sequences, TLC

\* ------------------------------------------------------------------ bounds
\* the number of rows a behaviour writes
MaxClock == 4

\* the callers of the Store; the claims about concurrent calls speak of two
Callers == {"c1", "c2"}

\* ------------------------------------------------------------- input values
ProjectIDs == {"p1"}
GroupIDs == {"g1"}
\* template_id is "text not null": the empty string is a value a caller can pass
TemplateIDs == {"t1", ""}
TransportIDs == {"tr1"}
TxtBodies == {"A", "B"}
HTMLBodies == {"<a>", "<b>"}
\* the names a caller gives a project, a transport or a group
Names == {"name"}
\* the addresses of a transport's reply-to list
Addresses == {"reply", "other"}

\* a JSONArray ([]string): nil, or the sequence of its elements
NilArray == [nil |-> TRUE, elems |-> << >>]
Array(elems) == [nil |-> FALSE, elems |-> elems]
\* the reply-to lists a caller passes
ReplyTos == {Array(<<"reply">>)}
\* the encrypted passwords a caller passes
EncryptedPasswords == {"secret"}

\* hex(sha512_224(body)[0:16]): a fingerprint, distinct for distinct bodies
Digest(body) ==
    CASE body = "A" -> "d(A)"
      [] body = "B" -> "d(B)"
      [] body = "<a>" -> "d(<a>)"
      [] body = "<b>" -> "d(<b>)"

\* --------------------------------------------------------------- the handles
\* defaultSqlite3DBs opens two sql.DB on one file: rw with SetMaxOpenConns(1),
\* ro with SetMaxOpenConns(defaultMaxOpenConns)
defaultMaxOpenConns == 120
MaxOpenConns(h) == IF h = "rw" THEN 1 ELSE defaultMaxOpenConns

NewQueries(ro, rw) == [readonly |-> ro, readwrite |-> rw]
NewStore(ro, rw) == NewQueries(ro, rw)

\* NewEmailService: rw, ro, err := defaultSqlite3DBs(...); sqlite3.NewStore(rw, ro)
NewEmailService == NewStore("rw", "ro")
\* the tests' wiring: rw := setupInMemoryDB(); sqlite3.NewStore(rw, rw)
NewTestStore == NewStore("rw", "rw")

\* OpenDB turns foreign-key enforcement on
ForeignKeysOn == TRUE

\* ------------------------------------------------------------------- errors
\* An error is its chain, outermost first; << >> is nil.
NoErr == << >>
ErrProjectAlreadyExists == "project_already_exists"
ErrProjectNotFound == "project_not_found"
ErrSMTPTransportNotFound == "smtp_transport_not_found"
ErrGroupNotFound == "group_not_found"
ErrTemplateNotFound == "template_not_found"

\* an error of the driver, of database/sql, of context, or made by errors.New
Raw(what) == <<[kind |-> "raw", code |-> what]>>
\* variant of NewStoreError: the error is passed on without a code
UntypedError(code, err) == <<[kind |-> "Wrapf", code |-> ""]>> \o err

\* store.NewStoreError(code, err): a *store.Error whose Unwrap gives err
NewStoreError(code, err) == <<[kind |-> "store.Error", code |-> code]>> \o err
\* errors.Wrapf(err, ...): keeps err as its cause
Wrapf(err) == <<[kind |-> "Wrapf", code |-> ""]>> \o err
\* var ErrTransportNotFound = errors.New("transport not found")
ErrTransportNotFound == Raw("transport not found")

\* errors.As(err, **store.Error): the code of the first *store.Error of the chain
RECURSIVE ErrCode(_)
ErrCode(err) ==
    IF err = << >> THEN ""
    ELSE IF Head(err).kind = "store.Error" THEN Head(err).code
    ELSE ErrCode(Tail(err))

\* ------------------------------------------------------------------ secrets
\* A byte string ([]byte, or a Go string) is a sequence of bytes 0..255; the
\* nil slice and the empty slice are both << >>.
KeySize == 16
NonceSize == 12
\* the size of the authentication tag cipher.NewGCM's AEAD appends
TagSize == 16

\* const AESGCMWithRandomNonce = iota
AESGCMWithRandomNonce == 0
\* the modes a caller can pass: Mode is an int
Modes == {AESGCMWithRandomNonce, 1}

\* the keys callers pass: two of 16 bytes ("abcdefghijklmnop" is the tests'),
\* none, and keys one byte short, one byte long and of AES-256's 32 bytes
TestKey == [i \in 1..KeySize |-> 96 + i]
OtherKey == [i \in 1..KeySize |-> 17 * i - 1]
Keys == {TestKey, OtherKey, << >>, SubSeq(TestKey, 1, KeySize - 1),
         TestKey \o <<0>>, TestKey \o OtherKey}

\* what io.ReadFull(rand.Reader, nonce) leaves in the nonce: 12 random bytes,
\* or an error
RandReads ==
    {[bytes |-> [i \in 1..NonceSize |-> 0], err |-> NoErr],
     [bytes |-> [i \in 1..NonceSize |-> 21 * i], err |-> NoErr],
     [bytes |-> [i \in 1..NonceSize |-> 255], err |-> NoErr],
     [bytes |-> << >>, err |-> Raw("rand: read failed")]}

\* the plaintexts encrypted: the empty one, one byte, "secret1"
Plaintexts == {<< >>, <<255>>, <<115, 101, 99, 114, 101, 116, 49>>}

\* the bitwise exclusive or of two bytes
RECURSIVE XorBits(_, _, _)
XorBits(a, b, n) ==
    IF n = 0 THEN 0
    ELSE (((a % 2) + (b % 2)) % 2) + 2 * XorBits(a \div 2, b \div 2, n - 1)
Xor(a, b) == XorBits(a, b, 8)

RECURSIVE Pow2(_)
Pow2(k) == IF k = 0 THEN 1 ELSE 2 * Pow2(k - 1)

\* the byte string with bit k (0..7) of its byte i flipped
FlipBit(bs, i, k) == [bs EXCEPT ![i] = Xor(@, Pow2(k))]

\* a keyed mix of a byte string: the sum of its bytes under odd weights, so
\* that a change of one bit of one byte changes it
RECURSIVE Mix(_, _)
Mix(bs, n) ==
    IF n = 0 THEN 0 ELSE (Mix(bs, n - 1) + (2 * n + 1) * bs[n]) % 256

\* The AEAD of cipher.NewGCM(aes.NewCipher(key)), reduced to its structure:
\* counter mode under a key stream that key and nonce determine, and a tag
\* over key, nonce and ciphertext.
\* what key and nonce give the key stream
StreamSeed(key, nonce) == (Mix(key, Len(key)) + 3 * Mix(nonce, Len(nonce))) % 256
\* byte i of the key stream
KeyStream(seed, i) == (seed + 29 * i + 7) % 256

\* the bytes bs in counter mode under key and nonce
Counter(key, nonce, bs) ==
    LET seed == StreamSeed(key, nonce)
    IN [i \in 1..Len(bs) |-> Xor(bs[i], KeyStream(seed, i))]

Tag(key, nonce, body) ==
    LET t == (5 * Mix(key, Len(key)) + Mix(nonce, Len(nonce)) + 7 * Mix(body, Len(body))
              + Len(body)) % 256
    IN [j \in 1..TagSize |-> (t + 11 * j) % 256]

\* aesgcm.Seal(nil, nonce, plaintext, nil)
Seal(key, nonce, plaintext) ==
    LET body == Counter(key, nonce, plaintext)
    IN body \o Tag(key, nonce, body)

errOpen == Raw("cipher: message authentication failed")

\* variant of Open: the tag is cut off and not compared
OpenUnauthenticated(key, nonce, ciphertext) ==
    IF Len(nonce) # NonceSize
    THEN [plaintext |-> << >>, ok |-> FALSE,
          err |-> Raw("panic: crypto/cipher: incorrect nonce length given to GCM")]
    ELSE IF Len(ciphertext) < TagSize
    THEN [plaintext |-> << >>, ok |-> FALSE, err |-> errOpen]
    ELSE LET body == SubSeq(ciphertext, 1, Len(ciphertext) - TagSize)
         IN [plaintext |-> Counter(key, nonce, body),
             ok |-> TRUE, err |-> NoErr]

\* aesgcm.Open(nil, nonce, ciphertext, nil): a nonce of another size panics, a
\* ciphertext shorter than the tag or with another tag than the one of its
\* body is refused
Open(key, nonce, ciphertext) ==
    IF Len(nonce) # NonceSize
    THEN [plaintext |-> << >>, ok |-> FALSE,
          err |-> Raw("panic: crypto/cipher: incorrect nonce length given to GCM")]
    ELSE IF Len(ciphertext) < TagSize
    THEN [plaintext |-> << >>, ok |-> FALSE, err |-> errOpen]
    ELSE LET body == SubSeq(ciphertext, 1, Len(ciphertext) - TagSize)
             tag == SubSeq(ciphertext, Len(ciphertext) - TagSize + 1, Len(ciphertext))
         IN IF tag # Tag(key, nonce, body)
            THEN [plaintext |-> << >>, ok |-> FALSE, err |-> errOpen]
            ELSE [plaintext |-> Counter(key, nonce, body),
                  ok |-> TRUE, err |-> NoErr]

\* variant of New: every key size of AES is accepted
NewAnyAESKey(m, key) ==
    IF m # AESGCMWithRandomNonce
    THEN [mgr |-> {}, err |-> Raw("AESGCMWithRandomNonce is currently the only supported mode of operation")]
    ELSE IF Len(key) \notin {KeySize, 24, 32}
    THEN [mgr |-> {}, err |-> Raw("secret manager key must be 16 bytes in length")]
    ELSE [mgr |-> {[mode |-> m, key |-> key]}, err |-> NoErr]

\* secrets.New(m, key)
New(m, key) ==
    IF m # AESGCMWithRandomNonce
    THEN [mgr |-> {}, err |-> Raw("AESGCMWithRandomNonce is currently the only supported mode of operation")]
    ELSE IF Len(key) # KeySize
    THEN [mgr |-> {}, err |-> Raw("secret manager key must be 16 bytes in length")]
    ELSE [mgr |-> {[mode |-> m, key |-> key]}, err |-> NoErr]

\* variant of Encrypt: the nonce returned is the buffer as make left it, not
\* the bytes read into it
EncryptReturnsZeroNonce(m, plaintext, rnd) ==
    IF rnd.err # NoErr
    THEN [ok |-> FALSE, nonce |-> << >>, ciphertext |-> << >>, err |-> rnd.err]
    ELSE [ok |-> TRUE, nonce |-> [i \in 1..NonceSize |-> 0],
          ciphertext |-> Seal(m.key, rnd.bytes, plaintext), err |-> NoErr]

\* Manager.Encrypt(plaintext); rnd is what rand.Reader gives this call
Encrypt(m, plaintext, rnd) ==
    IF rnd.err # NoErr
    THEN [ok |-> FALSE, nonce |-> << >>, ciphertext |-> << >>, err |-> rnd.err]
    ELSE [ok |-> TRUE, nonce |-> rnd.bytes,
          ciphertext |-> Seal(m.key, rnd.bytes, plaintext), err |-> NoErr]

\* Manager.Decrypt(nonce, ciphertext): nil and the error when Open fails
Decrypt(m, nonce, ciphertext) ==
    LET res == Open(m.key, nonce, ciphertext)
    IN IF res.err # NoErr
       THEN [plaintext |-> << >>, ok |-> FALSE, err |-> res.err]
       ELSE res

\* A hex text is the sequence of its characters.
HexDigits == <<"0", "1", "2", "3", "4", "5", "6", "7",
               "8", "9", "a", "b", "c", "d", "e", "f">>

\* hex.Encode: two lower-case digits a byte, the high one first
HexEncode(bs) ==
    [i \in 1..(2 * Len(bs)) |->
        IF i % 2 = 1 THEN HexDigits[(bs[(i + 1) \div 2] \div 16) + 1]
        ELSE HexDigits[(bs[i \div 2] % 16) + 1]]

IsHexDigit(ch) == \E v \in 1..16 : HexDigits[v] = ch
HexValue(ch) == (CHOOSE v \in 1..16 : HexDigits[v] = ch) - 1

\* hex.DecodeString: an odd length or a character that is no digit fails
HexDecodeString(s) ==
    IF \E i \in 1..Len(s) : ~IsHexDigit(s[i])
    THEN [bytes |-> << >>, err |-> Raw("encoding/hex: invalid byte")]
    ELSE IF Len(s) % 2 = 1
    THEN [bytes |-> << >>, err |-> Raw("encoding/hex: odd length hex string")]
    ELSE [bytes |-> [i \in 1..(Len(s) \div 2) |->
                        16 * HexValue(s[2 * i - 1]) + HexValue(s[2 * i])],
          err |-> NoErr]

\* Manager.EncryptHexEncode(plaintext)
EncryptHexEncode(m, plaintext, rnd) ==
    LET res == Encrypt(m, plaintext, rnd)
    IN IF res.err # NoErr
       THEN [ok |-> FALSE, nonce |-> << >>, ciphertext |-> << >>, err |-> res.err]
       ELSE [ok |-> TRUE, nonce |-> HexEncode(res.nonce),
             ciphertext |-> HexEncode(res.ciphertext), err |-> NoErr]

\* Manager.HexDecodeDecrypt(nonceHex, ciphertextHex)
HexDecodeDecrypt(m, nonceHex, ciphertextHex) ==
    LET nonce == HexDecodeString(nonceHex)
        ciphertext == HexDecodeString(ciphertextHex)
    IN IF nonce.err # NoErr
       THEN [plaintext |-> << >>, ok |-> FALSE, err |-> nonce.err]
       ELSE IF ciphertext.err # NoErr
       THEN [plaintext |-> << >>, ok |-> FALSE, err |-> ciphertext.err]
       ELSE Decrypt(m, nonce.bytes, ciphertext.bytes)

\* ------------------------------------------------------------------- state
VARIABLES
    store,      \* the Store's Queries: which handle is readonly, which readwrite
    encryptionKey, \* the Service's encryption key
    db,         \* the committed content of the database file
    clock,      \* the last time.Now() written to a row, in microseconds
    last,       \* the call that returned with the last step, if one did: its
                \* operation, parameters, value (val: {} is nil) and error
    pc,         \* per caller: where its SetTemplate call stands, or "idle"
    call,       \* per caller: the parameters of its SetTemplate call
    ctxDone,    \* per caller: the context of its SetTemplate call is cancelled
    txn,        \* per caller: the sql.Tx that execTx began
    loc,        \* per caller: SetTemplate's locals scanned by the digest check
    fn,         \* per caller: r and the error of the function passed to execTx
    prevSet,    \* history: the SetTemplate call that succeeded last, while the
                \* call that follows it has the same parameters
    rolledBack  \* history: modified_at of the rows written by a transaction that
                \* was rolled back

vars == <<store, encryptionKey, db, clock, last, pc, call, ctxDone, txn, loc, fn, prevSet, rolledBack>>

\* coalesce(..., '1970-01-01T00:00:00.000000Z')
Epoch == 0

EmptyDB == [projects |-> {}, smtp_transports |-> {}, groups |-> {}, templates |-> {}]

NoCall == [op |-> "none"]
NoLast == [op |-> "none", params |-> NoCall, val |-> {}, err |-> NoErr,
           cancelled |-> FALSE, fnErr |-> NoErr, rbErr |-> NoErr]
NoTx == [state |-> "none", conn |-> "none", lock |-> "none", templates |-> {}]
NoLoc == [template_id |-> "", group_id |-> "", project_id |-> "",
          txt_digest_eq |-> FALSE, html_digest_eq |-> FALSE,
          created_at |-> Epoch, modified_at |-> Epoch]
NoFn == [r |-> {}, err |-> NoErr]

\* a service or a test store on a database file that was just created
Init ==
    /\ store \in {NewEmailService, NewTestStore}
    /\ encryptionKey = TestKey
    /\ db = EmptyDB
    /\ clock = Epoch
    /\ last = NoLast
    /\ pc = [c \in Callers |-> "idle"]
    /\ call = [c \in Callers |-> NoCall]
    /\ ctxDone = [c \in Callers |-> FALSE]
    /\ txn = [c \in Callers |-> NoTx]
    /\ loc = [c \in Callers |-> NoLoc]
    /\ fn = [c \in Callers |-> NoFn]
    /\ prevSet = {}
    /\ rolledBack = {}

\* ------------------------------------------------- connections and locks
\* connections of handle h held by open transactions
InUse(h) == Cardinality({c \in Callers : txn[c].conn = h})
\* sql.DB hands out a connection of the handle, or the call waits for one
ConnFree(h) == InUse(h) < MaxOpenConns(h)

\* a write that commits needs the file's EXCLUSIVE lock: no other connection
\* holds SHARED or RESERVED
CanWriteNow(c) == \A o \in Callers \ {c} : txn[o].lock = "none"

\* time.Now().UTC() as store.Datetime writes it
Now == clock + 1

\* the call returns (val, err) to its caller
Returns(op, params, val, err) ==
    last' = [NoLast EXCEPT !.op = op, !.params = params, !.val = val, !.err = err]

\* no call returns with this step
NoReturn == last' = NoLast

\* ----------------------------------------------------------------- projects
ProjectRows(d, p) == {r \in d.projects : r.project_id = p}

\* the store.AddProject values with these identifiers and names
AddProject(ids, names) ==
    {[ProjectID |-> p, ProjectName |-> n, Description |-> d] :
        p \in ids, n \in names, d \in names}

\* the row "insert into projects ... values ..." writes
InsertProjectRow(params, now) ==
    [project_id |-> params.ProjectID, project_name |-> params.ProjectName,
     description |-> params.Description, created_at |-> now]

\* insert into projects ... returning ...
InsertProject(c, params) ==
    /\ pc[c] = "idle"
    /\ ConnFree(store.readwrite)
    /\ CanWriteNow(c)
    /\ IF ProjectRows(db, params.ProjectID) # {}
       THEN /\ Returns("InsertProject", params, {},
                    NewStoreError(ErrProjectAlreadyExists, Raw("sqlite3.ErrConstraintPrimaryKey")))
            /\ UNCHANGED <<db, clock>>
       ELSE /\ clock < MaxClock
            /\ LET row == InsertProjectRow(params, Now)
               IN /\ db' = [db EXCEPT !.projects = @ \cup {row}]
                  /\ Returns("InsertProject", params, {row}, NoErr)
            /\ clock' = Now
    /\ prevSet' = {}
    /\ UNCHANGED <<store, encryptionKey, pc, call, ctxDone, txn, loc, fn, rolledBack>>

\* select ... from projects where project_id = :project_id
GetProject(c, p) ==
    /\ pc[c] = "idle"
    /\ ConnFree(store.readonly)
    /\ IF ProjectRows(db, p) = {}
       THEN Returns("GetProject", [ProjectID |-> p], {},
                    NewStoreError(ErrProjectNotFound, Raw("sql.ErrNoRows")))
       ELSE Returns("GetProject", [ProjectID |-> p], ProjectRows(db, p), NoErr)
    /\ prevSet' = {}
    /\ UNCHANGED <<store, encryptionKey, db, clock, pc, call, ctxDone, txn, loc, fn, rolledBack>>

\* ------------------------------------------------------------ smtp transports
TransportRows(d, p, id) ==
    {r \in d.smtp_transports : r.smtp_transport_id = id /\ r.project_id = p}

\* The text of a column is the sequence of its JSON tokens; << >> is the
\* empty text ''.
\* a JSON string literal
Quote(a) == "\"" \o a \o "\""
Unquote(tok) == CHOOSE a \in Addresses : Quote(a) = tok
IsQuoted(tok) == \E a \in Addresses : Quote(a) = tok

\* JSONArray.Value: json.Marshal of the slice: null for nil, else the elements
\* in their order between brackets, separated by commas
JSONArrayValue(a) ==
    IF a.nil THEN <<"null">>
    ELSE <<"[">> \o
         [i \in 1..(IF Len(a.elems) = 0 THEN 0 ELSE 2 * Len(a.elems) - 1) |->
             IF i % 2 = 1 THEN Quote(a.elems[(i + 1) \div 2]) ELSE ","] \o
         <<"]">>

\* JSONArray.Scan: json.Unmarshal of the column's text into a nil slice; the
\* empty text is no JSON and fails, and *a is left as it was
JSONArrayScan(v) ==
    IF v = << >>
    THEN [arr |-> NilArray, err |-> Raw("json: unexpected end of JSON input")]
    ELSE IF v = <<"null">>
    THEN [arr |-> NilArray, err |-> NoErr]
    ELSE LET inner == SubSeq(v, 2, Len(v) - 1)
             n == (Len(inner) + 1) \div 2
         IN IF /\ Len(v) >= 2 /\ v[1] = "[" /\ v[Len(v)] = "]"
               /\ (Len(inner) = 0 \/ Len(inner) % 2 = 1)
               /\ \A i \in 1..Len(inner) :
                      IF i % 2 = 1 THEN IsQuoted(inner[i]) ELSE inner[i] = ","
            THEN [arr |-> Array([i \in 1..n |-> Unquote(inner[2 * i - 1])]), err |-> NoErr]
            ELSE [arr |-> NilArray, err |-> Raw("json: invalid character")]

\* the SMTPTransport scanned from a transport row
ScanTransport(row) == [row EXCEPT !.email_replyto = JSONArrayScan(@).arr]

\* the store.AddSMTPTransport values with these identifiers, sender names,
\* reply-to lists and encrypted passwords
AddSMTPTransport(ps, ids, names, replyTos, passwords) ==
    {[SMTPTransportID |-> id, ProjectID |-> p, TransportName |-> "name",
      Host |-> "host", Port |-> 587, Username |-> "user", EncryptedPassword |-> pw,
      EmailFrom |-> "from", EmailFromName |-> n, EmailReplyTo |-> a] :
        p \in ps, id \in ids, n \in names, a \in replyTos, pw \in passwords}

\* variant of InsertSMTPTransportRow: the statement binds no email_from_name
InsertSMTPTransportRowNoFromName(params, now) ==
    [smtp_transport_id |-> params.SMTPTransportID, project_id |-> params.ProjectID,
     transport_name |-> params.TransportName, host |-> params.Host, port |-> params.Port,
     username |-> params.Username, encrypted_password |-> params.EncryptedPassword,
     email_from |-> params.EmailFrom, email_from_name |-> "",
     email_replyto |-> JSONArrayValue(params.EmailReplyTo),
     created_at |-> now, modified_at |-> now]

\* the row InsertSMTPTransport's statement writes: each named parameter in its
\* column, the reply-to list as its JSON text, one now for both times
InsertSMTPTransportRow(params, now) ==
    [smtp_transport_id |-> params.SMTPTransportID, project_id |-> params.ProjectID,
     transport_name |-> params.TransportName, host |-> params.Host, port |-> params.Port,
     username |-> params.Username, encrypted_password |-> params.EncryptedPassword,
     email_from |-> params.EmailFrom, email_from_name |-> params.EmailFromName,
     email_replyto |-> JSONArrayValue(params.EmailReplyTo),
     created_at |-> now, modified_at |-> now]

\* Queries.InsertSMTPTransport on the database d: insert into smtp_transports
\* ... select ... from projects where project_id = ... returning ...: no
\* project, no row inserted and no row returned
InsertSMTPTransportQuery(d, params, now) ==
    IF ProjectRows(d, params.ProjectID) = {}
    THEN [smtp_transports |-> d.smtp_transports, val |-> {},
          err |-> Wrapf(Raw("sql.ErrNoRows"))]
    ELSE IF TransportRows(d, params.ProjectID, params.SMTPTransportID) # {}
    THEN [smtp_transports |-> d.smtp_transports, val |-> {},
          err |-> Wrapf(Raw("sqlite3.ErrConstraintPrimaryKey"))]
    ELSE LET row == InsertSMTPTransportRow(params, now)
         IN [smtp_transports |-> d.smtp_transports \cup {row},
             val |-> {ScanTransport(row)}, err |-> NoErr]

InsertSMTPTransport(c, params) ==
    /\ pc[c] = "idle"
    /\ ConnFree(store.readwrite)
    /\ CanWriteNow(c)
    /\ LET res == InsertSMTPTransportQuery(db, params, Now)
       IN /\ res.err = NoErr => clock < MaxClock
          /\ db' = [db EXCEPT !.smtp_transports = res.smtp_transports]
          /\ clock' = IF res.err = NoErr THEN Now ELSE clock
          /\ Returns("InsertSMTPTransport", params, res.val, res.err)
    /\ prevSet' = {}
    /\ UNCHANGED <<store, encryptionKey, pc, call, ctxDone, txn, loc, fn, rolledBack>>

\* the rows of GetSMTPTransport's query: projects left outer join
\* smtp_transports, every transport column coalesced to '' when no transport
\* row joins
GetSMTPTransportQuery(d, id, p) ==
    IF ProjectRows(d, p) = {} THEN {}
    ELSE IF TransportRows(d, p, id) = {}
    THEN {[smtp_transport_id |-> "", project_id |-> p, email_replyto |-> << >>]}
    ELSE TransportRows(d, p, id)

\* Queries.GetSMTPTransport on the database d: no row is ProjectNotFound; a
\* row whose columns do not scan is wrapped; then if r.SMTPTransportID == ""
GetSMTPTransportResult(d, id, p) ==
    LET rows == GetSMTPTransportQuery(d, id, p)
    IN IF rows = {}
       THEN [val |-> {}, err |-> NewStoreError(ErrProjectNotFound, Raw("sql.ErrNoRows"))]
       ELSE LET row == CHOOSE r \in rows : TRUE
            IN IF JSONArrayScan(row.email_replyto).err # NoErr
               THEN [val |-> {}, err |-> Wrapf(JSONArrayScan(row.email_replyto).err)]
               ELSE IF row.smtp_transport_id = ""
               THEN [val |-> {}, err |-> ErrTransportNotFound]
               ELSE [val |-> {ScanTransport(row)}, err |-> NoErr]

GetSMTPTransport(c, id, p) ==
    /\ pc[c] = "idle"
    /\ ConnFree(store.readonly)
    /\ LET res == GetSMTPTransportResult(db, id, p)
       IN Returns("GetSMTPTransport", [ProjectID |-> p, SMTPTransportID |-> id],
                  res.val, res.err)
    /\ prevSet' = {}
    /\ UNCHANGED <<store, encryptionKey, db, clock, pc, call, ctxDone, txn, loc, fn, rolledBack>>

\* ------------------------------------------------------------------- groups
\* variant of GroupRows: the join forgets the project
GroupRowsAnyProject(d, p, g) == {r \in d.groups : r.group_id = g}

GroupRows(d, p, g) == {r \in d.groups : r.group_id = g /\ r.project_id = p}

\* the store.AddGroup values with these identifiers and names
AddGroup(ps, gs, names) ==
    {[GroupID |-> g, ProjectID |-> p, GroupName |-> n] : p \in ps, g \in gs, n \in names}

\* the row "insert into groups ... values ..." writes: one now for both times
InsertGroupRow(params, now) ==
    [group_id |-> params.GroupID, project_id |-> params.ProjectID,
     group_name |-> params.GroupName, created_at |-> now, modified_at |-> now]

\* insert into groups ... returning ...
InsertGroup(c, params) ==
    /\ pc[c] = "idle"
    /\ ConnFree(store.readwrite)
    /\ CanWriteNow(c)
    /\ IF GroupRows(db, params.ProjectID, params.GroupID) # {}
       THEN /\ Returns("InsertGroup", params, {},
                    Wrapf(Raw("sqlite3.ErrConstraintPrimaryKey")))
            /\ UNCHANGED <<db, clock>>
       ELSE IF ForeignKeysOn /\ ProjectRows(db, params.ProjectID) = {}
       THEN /\ Returns("InsertGroup", params, {},
                    NewStoreError(ErrProjectNotFound, Raw("sqlite3.ErrConstraintForeignKey")))
            /\ UNCHANGED <<db, clock>>
       ELSE /\ clock < MaxClock
            /\ LET row == InsertGroupRow(params, Now)
               IN /\ db' = [db EXCEPT !.groups = @ \cup {row}]
                  /\ Returns("InsertGroup", params, {row}, NoErr)
            /\ clock' = Now
    /\ prevSet' = {}
    /\ UNCHANGED <<store, encryptionKey, pc, call, ctxDone, txn, loc, fn, rolledBack>>

\* select coalesce(g.group_id, '') ... from projects as p left outer join groups
\* as g ...; then if r.GroupID == ""
GetGroup(c, p, g) ==
    /\ pc[c] = "idle"
    /\ ConnFree(store.readonly)
    /\ IF ProjectRows(db, p) = {}
       THEN Returns("GetGroup", [ProjectID |-> p, GroupID |-> g], {},
                    NewStoreError(ErrProjectNotFound, Raw("sql.ErrNoRows")))
       ELSE IF \A r \in GroupRows(db, p, g) : r.group_id = ""
       THEN Returns("GetGroup", [ProjectID |-> p, GroupID |-> g], {},
                    NewStoreError(ErrGroupNotFound, NoErr))
       ELSE Returns("GetGroup", [ProjectID |-> p, GroupID |-> g], GroupRows(db, p, g), NoErr)
    /\ prevSet' = {}
    /\ UNCHANGED <<store, encryptionKey, db, clock, pc, call, ctxDone, txn, loc, fn, rolledBack>>

\* ----------------------------------------------------------------- templates
\* variant of TemplateRows: the join forgets the project
TemplateRowsAnyProject(tbl, p, t) == {r \in tbl : r.template_id = t}

TemplateRows(tbl, p, t) == {r \in tbl : r.template_id = t /\ r.project_id = p}

\* the parameters of InsertTemplate and of SetTemplate; the digests are those
\* of the bodies
TemplateParams ==
    {[ProjectID |-> p, GroupID |-> g, TemplateID |-> t,
      Txt |-> x, TxtDigest |-> Digest(x), HTML |-> h, HTMLDigest |-> Digest(h)] :
        p \in ProjectIDs, g \in GroupIDs, t \in TemplateIDs, x \in TxtBodies, h \in HTMLBodies}

\* variant of InsertTemplateRow: modified_at is left at its zero value
InsertTemplateRowNoModified(params, now) ==
    [template_id |-> params.TemplateID, group_id |-> params.GroupID,
     project_id |-> params.ProjectID,
     txt |-> params.Txt, txt_digest |-> params.TxtDigest,
     html |-> params.HTML, html_digest |-> params.HTMLDigest,
     created_at |-> now, modified_at |-> Epoch]

\* the row "insert into templates ... values ..." writes: one now for both times
InsertTemplateRow(params, now) ==
    [template_id |-> params.TemplateID, group_id |-> params.GroupID,
     project_id |-> params.ProjectID,
     txt |-> params.Txt, txt_digest |-> params.TxtDigest,
     html |-> params.HTML, html_digest |-> params.HTMLDigest,
     created_at |-> now, modified_at |-> now]

\* variant of InsertTemplateQuery: a templates table with its primary key
\* (template_id, group_id, project_id) as its only constraint
InsertTemplateQueryPrimaryKeyOnly(tbl, groups, params, now) ==
    LET row == InsertTemplateRow(params, now)
    IN IF \E r \in TemplateRows(tbl, row.project_id, row.template_id) : r.group_id = row.group_id
       THEN [templates |-> tbl, val |-> {}, err |-> Wrapf(Raw("sqlite3.ErrConstraintPrimaryKey"))]
       ELSE [templates |-> tbl \cup {row}, val |-> {row}, err |-> NoErr]

\* variant of InsertTemplateQuery: a templates table without its foreign key
InsertTemplateQueryNoForeignKey(tbl, groups, params, now) ==
    LET row == InsertTemplateRow(params, now)
    IN IF TemplateRows(tbl, row.project_id, row.template_id) # {}
       THEN [templates |-> tbl, val |-> {}, err |-> Wrapf(Raw("sqlite3.ErrConstraintUnique"))]
       ELSE [templates |-> tbl \cup {row}, val |-> {row}, err |-> NoErr]

\* Queries.InsertTemplate on the table tbl: the table after it, the row returned
\* and the error; the unique index (template_id, project_id) and the foreign key
\* (group_id, project_id) of the schema decide
InsertTemplateQuery(tbl, groups, params, now) ==
    LET row == InsertTemplateRow(params, now)
    IN IF TemplateRows(tbl, row.project_id, row.template_id) # {}
       THEN [templates |-> tbl, val |-> {}, err |-> Wrapf(Raw("sqlite3.ErrConstraintUnique"))]
       ELSE IF ForeignKeysOn /\ ~\E g \in groups :
                    g.group_id = row.group_id /\ g.project_id = row.project_id
       THEN [templates |-> tbl, val |-> {}, err |-> Wrapf(Raw("sqlite3.ErrConstraintForeignKey"))]
       ELSE [templates |-> tbl \cup {row}, val |-> {row}, err |-> NoErr]

\* variant of UpdateTemplateRow: the update also moves the template to the
\* group the call names
UpdateTemplateRowSetsGroup(row, params, now) ==
    [row EXCEPT !.group_id = params.GroupID,
                !.txt = params.Txt, !.txt_digest = params.TxtDigest,
                !.html = params.HTML, !.html_digest = params.HTMLDigest,
                !.modified_at = now]

\* the row "update templates set ..." leaves: bodies, digests and modified_at
UpdateTemplateRow(row, params, now) ==
    [row EXCEPT !.txt = params.Txt, !.txt_digest = params.TxtDigest,
                !.html = params.HTML, !.html_digest = params.HTMLDigest,
                !.modified_at = now]

\* Queries.updateTemplate on the table tbl
updateTemplateQuery(tbl, params, now) ==
    LET old == TemplateRows(tbl, params.ProjectID, params.TemplateID)
        new == {UpdateTemplateRow(r, params, now) : r \in old}
    IN IF old = {}
       THEN [templates |-> tbl, val |-> {}, err |-> Wrapf(Raw("sql.ErrNoRows"))]
       ELSE [templates |-> (tbl \ old) \cup new, val |-> new, err |-> NoErr]

\* Store.InsertTemplate, outside any transaction
InsertTemplate(c, params) ==
    /\ pc[c] = "idle"
    /\ ConnFree(store.readwrite)
    /\ CanWriteNow(c)
    /\ LET res == InsertTemplateQuery(db.templates, db.groups, params, Now)
       IN /\ res.err = NoErr => clock < MaxClock
          /\ db' = [db EXCEPT !.templates = res.templates]
          /\ clock' = IF res.err = NoErr THEN Now ELSE clock
          /\ Returns("InsertTemplate", params, res.val, res.err)
    /\ prevSet' = {}
    /\ UNCHANGED <<store, encryptionKey, pc, call, ctxDone, txn, loc, fn, rolledBack>>

\* the Template GetTemplate scans: the query selects no digest column
ScanTemplate(row) == [row EXCEPT !.txt_digest = "", !.html_digest = ""]

\* Queries.GetTemplate on the database d: select coalesce(t.template_id, '')
\* ... from projects as p left outer join templates as t ...; then
\* if r.TemplateID == ""
GetTemplateResult(d, p, t) ==
    IF ProjectRows(d, p) = {}
    THEN [val |-> {}, err |-> NewStoreError(ErrProjectNotFound, Raw("sql.ErrNoRows"))]
    ELSE IF \A r \in TemplateRows(d.templates, p, t) : r.template_id = ""
    THEN [val |-> {}, err |-> NewStoreError(ErrTemplateNotFound, NoErr)]
    ELSE [val |-> {ScanTemplate(r) : r \in TemplateRows(d.templates, p, t)}, err |-> NoErr]

GetTemplate(c, p, t) ==
    /\ pc[c] = "idle"
    /\ ConnFree(store.readonly)
    /\ LET res == GetTemplateResult(db, p, t)
       IN Returns("GetTemplate", [ProjectID |-> p, TemplateID |-> t], res.val, res.err)
    /\ prevSet' = {}
    /\ UNCHANGED <<store, encryptionKey, db, clock, pc, call, ctxDone, txn, loc, fn, rolledBack>>

\* ------------------------------------------------------- execTx, SetTemplate
\* variant of TxCtx: the transaction is begun on a context nobody cancels
TxCtxBackground(c) == "background"

\* execTx: s.readwrite.BeginTx(ctx, ...): the transaction is bound to the
\* caller's context
TxCtx(c) == "ctx"

\* variant of withTx: fn gets the Store's own Queries, whose statements run on
\* connections of the handle and commit one by one
withTxPool(c) == [readwrite |-> store.readwrite]

\* execTx: q := s.withTx(tx): the Queries handed to fn run on the transaction
withTx(c) == [readwrite |-> "tx"]

\* database/sql rolls a transaction back once its context is done
TxCancelled(c) == TxCtx(c) = "ctx" /\ ctxDone[c]

\* the templates table as a statement of c's SetTemplate sees it
TemplatesView(c) ==
    IF withTx(c).readwrite = "tx" /\ txn[c].lock # "none"
    THEN txn[c].templates ELSE db.templates

\* a statement of fn waits for a connection unless it runs on the transaction's
StmtReady(c) == withTx(c).readwrite = "tx" \/ ConnFree(withTx(c).readwrite)

\* chkDigestQuery: projects left outer join templates, one row per project row
chkDigestQuery(projects, tbl, params) ==
    LET ts == TemplateRows(tbl, params.ProjectID, params.TemplateID)
    IN IF \A r \in projects : r.project_id # params.ProjectID THEN {}
       ELSE IF ts = {}
       THEN {[NoLoc EXCEPT !.project_id = params.ProjectID]}
       ELSE {[template_id |-> t.template_id, group_id |-> t.group_id,
              project_id |-> params.ProjectID,
              txt_digest_eq |-> (t.txt_digest = params.TxtDigest),
              html_digest_eq |-> (t.html_digest = params.HTMLDigest),
              created_at |-> t.created_at, modified_at |-> t.modified_at] : t \in ts}

\* if templateID == "": the template does not exist
TemplateAbsent(scanned) == scanned.template_id = ""

\* if txtDigestEq && htmlDigestEq: nothing to update
DigestsEqual(scanned) == scanned.txt_digest_eq /\ scanned.html_digest_eq

\* the Template SetTemplate builds when the digests are equal
UnchangedTemplate(params, scanned) ==
    [template_id |-> params.TemplateID, group_id |-> scanned.group_id,
     project_id |-> params.ProjectID,
     txt |-> params.Txt, txt_digest |-> params.TxtDigest,
     html |-> params.HTML, html_digest |-> params.HTMLDigest,
     created_at |-> scanned.created_at, modified_at |-> scanned.modified_at]

\* variant of ChkDigestNoRows: sql.ErrNoRows is wrapped like any other error
ChkDigestNoRowsWrapped == Wrapf(Raw("sql.ErrNoRows"))

\* the error fn returns when the digest check scans no row
ChkDigestNoRows == NewStoreError(ErrProjectNotFound, Raw("sql.ErrNoRows"))

\* execTx: what it returns when fn failed with err and Rollback returned rbErr;
\* fmt.Errorf with %v keeps the texts of both errors, and neither error
RollbackResult(err, rbErr) ==
    IF rbErr # NoErr THEN <<[kind |-> "fmt.Errorf", code |-> ""]>> ELSE err

CtxErr == Raw("context.Canceled")
ErrTxDone == Raw("sql.ErrTxDone")

\* SetTemplate calls execTx, which begins the transaction
BeginTx(c, params) ==
    /\ pc[c] = "idle"
    /\ ConnFree(store.readwrite)
    /\ pc' = [pc EXCEPT ![c] = "chk"]
    /\ call' = [call EXCEPT ![c] = params]
    /\ txn' = [txn EXCEPT ![c] = [state |-> "open", conn |-> store.readwrite,
                                  lock |-> "none", templates |-> {}]]
    /\ prevSet' = {x \in prevSet : x.params = params}
    /\ UNCHANGED <<store, encryptionKey, db, clock, ctxDone, loc, fn, rolledBack>>
    /\ NoReturn

\* fn fails with err: execTx goes on to roll back
FnFails(c, err) ==
    /\ pc' = [pc EXCEPT ![c] = "rollback"]
    /\ fn' = [fn EXCEPT ![c] = [r |-> {}, err |-> err]]

\* fn, step 1: the digest check, and the branch on what it scanned
ChkDigest(c) ==
    /\ pc[c] = "chk"
    /\ StmtReady(c)
    /\ IF ctxDone[c]
       THEN /\ FnFails(c, Wrapf(CtxErr))
            /\ UNCHANGED <<txn, loc>>
       ELSE LET rows == chkDigestQuery(db.projects, TemplatesView(c), call[c])
            IN /\ txn' = IF withTx(c).readwrite = "tx" /\ txn[c].lock = "none"
                         THEN [txn EXCEPT ![c].lock = "shared", ![c].templates = db.templates]
                         ELSE txn
               /\ IF rows = {}
                  THEN /\ FnFails(c, ChkDigestNoRows)
                       /\ UNCHANGED loc
                  ELSE LET scanned == CHOOSE r \in rows : TRUE
                       IN /\ loc' = [loc EXCEPT ![c] = scanned]
                          /\ IF TemplateAbsent(scanned)
                             THEN /\ pc' = [pc EXCEPT ![c] = "insert"]
                                  /\ UNCHANGED fn
                             ELSE IF DigestsEqual(scanned)
                             THEN /\ pc' = [pc EXCEPT ![c] = "commit"]
                                  /\ fn' = [fn EXCEPT ![c] =
                                              [r |-> {UnchangedTemplate(call[c], scanned)},
                                               err |-> NoErr]]
                             ELSE /\ pc' = [pc EXCEPT ![c] = "update"]
                                  /\ UNCHANGED fn
    /\ UNCHANGED <<store, encryptionKey, db, clock, call, ctxDone, prevSet, rolledBack>>
    /\ NoReturn

\* a write statement of fn: q.InsertTemplate or q.updateTemplate; res is what
\* the statement does to the table it sees
TxWrite(c, res) ==
    IF ctxDone[c]
    THEN /\ FnFails(c, Wrapf(CtxErr))
         /\ UNCHANGED <<db, clock, txn>>
    ELSE IF withTx(c).readwrite = "tx"
    THEN IF \E o \in Callers \ {c} : txn[o].lock = "reserved"
         THEN /\ FnFails(c, Wrapf(Raw("sqlite3.ErrBusy")))
              /\ UNCHANGED <<db, clock, txn>>
         ELSE IF res.err # NoErr
         THEN /\ FnFails(c, res.err)
              /\ txn' = [txn EXCEPT ![c].lock = "reserved"]
              /\ UNCHANGED <<db, clock>>
         ELSE /\ clock < MaxClock
              /\ txn' = [txn EXCEPT ![c].lock = "reserved", ![c].templates = res.templates]
              /\ clock' = Now
              /\ pc' = [pc EXCEPT ![c] = "commit"]
              /\ fn' = [fn EXCEPT ![c] = [r |-> res.val, err |-> NoErr]]
              /\ UNCHANGED db
    ELSE /\ CanWriteNow(c)
         /\ IF res.err # NoErr
            THEN /\ FnFails(c, res.err)
                 /\ UNCHANGED <<db, clock>>
            ELSE /\ clock < MaxClock
                 /\ db' = [db EXCEPT !.templates = res.templates]
                 /\ clock' = Now
                 /\ pc' = [pc EXCEPT ![c] = "commit"]
                 /\ fn' = [fn EXCEPT ![c] = [r |-> res.val, err |-> NoErr]]
         /\ UNCHANGED txn

\* fn, step 2 when the template does not exist: q.InsertTemplate
TxInsertTemplate(c) ==
    /\ pc[c] = "insert"
    /\ StmtReady(c)
    /\ TxWrite(c, InsertTemplateQuery(TemplatesView(c), db.groups, call[c], Now))
    /\ UNCHANGED <<store, encryptionKey, call, ctxDone, loc, prevSet, rolledBack>>
    /\ NoReturn

\* fn, step 3 when a digest differs: q.updateTemplate
TxUpdateTemplate(c) ==
    /\ pc[c] = "update"
    /\ StmtReady(c)
    /\ TxWrite(c, updateTemplateQuery(TemplatesView(c), call[c], Now))
    /\ UNCHANGED <<store, encryptionKey, call, ctxDone, loc, prevSet, rolledBack>>
    /\ NoReturn

\* SetTemplate returns (val, err); fnErr is what fn returned and rbErr what
\* Rollback returned; the call's locals go out of scope
SetTemplateReturns(c, val, err, fnErr, rbErr) ==
    /\ last' = [op |-> "SetTemplate", params |-> call[c], val |-> val, err |-> err,
                cancelled |-> ctxDone[c], fnErr |-> fnErr, rbErr |-> rbErr]
    /\ prevSet' = IF err = NoErr THEN {[params |-> call[c], val |-> val]} ELSE {}
    /\ pc' = [pc EXCEPT ![c] = "idle"]
    /\ call' = [call EXCEPT ![c] = NoCall]
    /\ ctxDone' = [ctxDone EXCEPT ![c] = FALSE]
    /\ txn' = [txn EXCEPT ![c] = NoTx]
    /\ loc' = [loc EXCEPT ![c] = NoLoc]
    /\ fn' = [fn EXCEPT ![c] = NoFn]

\* the modified_at of the row c's transaction wrote, if it wrote one
Written(c) ==
    IF pc[c] = "commit" /\ ~DigestsEqual(loc[c]) THEN {r.modified_at : r \in fn[c].r} ELSE {}

\* variant of TxCommit: SetTemplate returns r whatever Commit returned
TxCommitReturnsR(c) ==
    /\ pc[c] = "commit"
    /\ IF TxCancelled(c)
       THEN /\ SetTemplateReturns(c, fn[c].r, IF txn[c].state = "open" THEN CtxErr ELSE ErrTxDone,
                                  NoErr, NoErr)
            /\ rolledBack' = rolledBack \cup Written(c)
            /\ UNCHANGED db
       ELSE /\ txn[c].lock = "reserved" => CanWriteNow(c)
            /\ db' = IF txn[c].lock = "reserved"
                     THEN [db EXCEPT !.templates = txn[c].templates] ELSE db
            /\ SetTemplateReturns(c, fn[c].r, NoErr, NoErr, NoErr)
            /\ UNCHANGED rolledBack
    /\ UNCHANGED <<store, encryptionKey, clock>>

\* execTx: fn returned nil, tx.Commit(); SetTemplate returns r or the error.
\* Commit on a transaction whose context is done commits nothing and returns
\* the context's error, or ErrTxDone once the watcher has rolled it back.
TxCommit(c) ==
    /\ pc[c] = "commit"
    /\ IF TxCancelled(c)
       THEN /\ SetTemplateReturns(c, {}, IF txn[c].state = "open" THEN CtxErr ELSE ErrTxDone,
                                  NoErr, NoErr)
            /\ rolledBack' = rolledBack \cup Written(c)
            /\ UNCHANGED db
       ELSE /\ txn[c].lock = "reserved" => CanWriteNow(c)
            /\ db' = IF txn[c].lock = "reserved"
                     THEN [db EXCEPT !.templates = txn[c].templates] ELSE db
            /\ SetTemplateReturns(c, fn[c].r, NoErr, NoErr, NoErr)
            /\ UNCHANGED rolledBack
    /\ UNCHANGED <<store, encryptionKey, clock>>

\* variant of TxRollback: execTx returns fn's error and leaves the transaction
\* as it is
TxRollbackLeavesTxOpen(c) ==
    /\ pc[c] = "rollback"
    /\ last' = [op |-> "SetTemplate", params |-> call[c], val |-> {}, err |-> fn[c].err,
                cancelled |-> ctxDone[c], fnErr |-> fn[c].err, rbErr |-> NoErr]
    /\ prevSet' = {}
    /\ pc' = [pc EXCEPT ![c] = "idle"]
    /\ call' = [call EXCEPT ![c] = NoCall]
    /\ loc' = [loc EXCEPT ![c] = NoLoc]
    /\ fn' = [fn EXCEPT ![c] = NoFn]
    /\ UNCHANGED <<store, encryptionKey, db, clock, ctxDone, txn, rolledBack>>

\* execTx: fn returned an error, tx.Rollback(); SetTemplate returns nil and
\* the error execTx returns
TxRollback(c) ==
    /\ pc[c] = "rollback"
    /\ LET rbErr == IF txn[c].state = "open" THEN NoErr ELSE ErrTxDone
       IN SetTemplateReturns(c, {}, RollbackResult(fn[c].err, rbErr), fn[c].err, rbErr)
    /\ UNCHANGED <<store, encryptionKey, db, clock, rolledBack>>

\* the caller cancels the context of its SetTemplate call
Cancel(c) ==
    /\ pc[c] \in {"chk", "insert", "update", "commit", "rollback"}
    /\ ~ctxDone[c]
    /\ ctxDone' = [ctxDone EXCEPT ![c] = TRUE]
    /\ UNCHANGED <<store, encryptionKey, db, clock, pc, call, txn, loc, fn, prevSet, rolledBack>>
    /\ NoReturn

\* database/sql's watcher of the transaction's context rolls it back and
\* gives its connection up
AwaitDone(c) ==
    /\ TxCancelled(c)
    /\ txn[c].state = "open"
    /\ txn' = [txn EXCEPT ![c] = [state |-> "done", conn |-> "none",
                                  lock |-> "none", templates |-> {}]]
    /\ UNCHANGED <<store, encryptionKey, db, clock, pc, call, ctxDone, loc, fn, prevSet, rolledBack>>
    /\ NoReturn

\* ----------------------------------------------------------------- Service
\* the entity.CreateSMTPTransport values with these identifiers and passwords
CreateSMTPTransportParams(ps, ids, passwords) ==
    {[ID |-> id, ProjectID |-> p, Name |-> "name", Host |-> "host", Port |-> 587,
      Username |-> "user", Password |-> pw, EmailFrom |-> "from",
      EmailFromName |-> "name", EmailReplyTo |-> Array(<<"reply">>)] :
        p \in ps, id \in ids, pw \in passwords}

\* variant of encryptedPassword: the ciphertext comes first
encryptedPasswordCiphertextFirst(nonce, ciphertext) == ciphertext \o nonce

\* encryptedPassword := nonce + ciphertext
encryptedPassword(nonce, ciphertext) == nonce \o ciphertext

\* the store.AddSMTPTransport CreateSMTPTransport passes to the Store
AddSMTPTransportOf(params, encrypted) ==
    [SMTPTransportID |-> params.ID, ProjectID |-> params.ProjectID,
     TransportName |-> params.Name, Host |-> params.Host, Port |-> params.Port,
     Username |-> params.Username, EncryptedPassword |-> encrypted,
     EmailFrom |-> params.EmailFrom, EmailFromName |-> params.EmailFromName,
     EmailReplyTo |-> params.EmailReplyTo]

\* the entity of a stored transport: every field but the encrypted password
smtpTransportFromStoreObject(obj) ==
    [ID |-> obj.smtp_transport_id, ProjectID |-> obj.project_id,
     Name |-> obj.transport_name, Host |-> obj.host, Port |-> obj.port,
     Username |-> obj.username, EmailFrom |-> obj.email_from,
     EmailFromName |-> obj.email_from_name, EmailReplyTo |-> obj.email_replyto,
     CreatedAt |-> obj.created_at, ModifiedAt |-> obj.modified_at]

\* Service.CreateSMTPTransport: a Manager on the Service's key encrypts the
\* password, and the hex texts of nonce and ciphertext, joined, are stored
CreateSMTPTransport(c, params, rnd) ==
    /\ pc[c] = "idle"
    /\ ConnFree(store.readwrite)
    /\ CanWriteNow(c)
    /\ LET mgr == New(AESGCMWithRandomNonce, encryptionKey)
           m == CHOOSE x \in mgr.mgr : TRUE
           enc == EncryptHexEncode(m, params.Password, rnd)
           res == InsertSMTPTransportQuery(db,
                      AddSMTPTransportOf(params, encryptedPassword(enc.nonce, enc.ciphertext)),
                      Now)
       IN IF mgr.err # NoErr
          THEN /\ Returns("CreateSMTPTransport", params, {}, Wrapf(mgr.err))
               /\ UNCHANGED <<db, clock>>
          ELSE IF enc.err # NoErr
          THEN /\ Returns("CreateSMTPTransport", params, {}, Wrapf(enc.err))
               /\ UNCHANGED <<db, clock>>
          ELSE /\ res.err = NoErr => clock < MaxClock
               /\ db' = [db EXCEPT !.smtp_transports = res.smtp_transports]
               /\ clock' = IF res.err = NoErr THEN Now ELSE clock
               /\ Returns("CreateSMTPTransport", params,
                          {smtpTransportFromStoreObject(r) : r \in res.val},
                          IF res.err = NoErr THEN NoErr ELSE Wrapf(res.err))
    /\ prevSet' = {}
    /\ UNCHANGED <<store, encryptionKey, pc, call, ctxDone, txn, loc, fn, rolledBack>>

\* the length of the hex text of a nonce, where SendEmail splits
NonceHexSize == 24

\* variant of SplitEncryptedPassword: the split is at the nonce's 12, its
\* size in bytes
SplitEncryptedPasswordAtNonceSize(s) ==
    IF Len(s) < NonceSize
    THEN [nonce |-> << >>, ciphertext |-> << >>,
          err |-> Raw("panic: slice bounds out of range")]
    ELSE [nonce |-> SubSeq(s, 1, NonceSize),
          ciphertext |-> SubSeq(s, NonceSize + 1, Len(s)), err |-> NoErr]

\* trObj.EncryptedPassword[:24], trObj.EncryptedPassword[24:]
SplitEncryptedPassword(s) ==
    IF Len(s) < NonceHexSize
    THEN [nonce |-> << >>, ciphertext |-> << >>,
          err |-> Raw("panic: slice bounds out of range")]
    ELSE [nonce |-> SubSeq(s, 1, NonceHexSize),
          ciphertext |-> SubSeq(s, NonceHexSize + 1, Len(s)), err |-> NoErr]

\* SendEmail's decryption of a stored encrypted password with the key
DecryptPassword(key, encrypted) ==
    LET mgr == New(AESGCMWithRandomNonce, key)
        m == CHOOSE x \in mgr.mgr : TRUE
        split == SplitEncryptedPassword(encrypted)
    IN IF mgr.err # NoErr THEN [plaintext |-> << >>, ok |-> FALSE, err |-> mgr.err]
       ELSE IF split.err # NoErr THEN [plaintext |-> << >>, ok |-> FALSE, err |-> split.err]
       ELSE HexDecodeDecrypt(m, split.nonce, split.ciphertext)

\* the email.AWSConfig SendEmail hands to the mail transport
AWSConfig(trObj, password) ==
    [Host |-> trObj.host, Port |-> trObj.port, Username |-> trObj.username,
     Password |-> password, From |-> trObj.email_from,
     FromName |-> trObj.email_from_name, ReplyTo |-> trObj.email_replyto]

\* Service.SendEmail: the template is read and rendered (renders: the
\* templating engine accepts it), the transport is read and its password
\* decrypted, and the mail transport sends (sent: it succeeds); val is the
\* configuration the mail transport was given
SendEmail(c, params, renders, sent) ==
    /\ pc[c] = "idle"
    /\ ConnFree(store.readonly)
    /\ LET t == GetTemplateResult(db, params.ProjectID, params.TemplateID)
           tr == GetSMTPTransportResult(db, params.TransportID, params.ProjectID)
           trObj == CHOOSE r \in tr.val : TRUE
           pw == DecryptPassword(encryptionKey, trObj.encrypted_password)
       IN IF t.err # NoErr
          THEN Returns("SendEmail", params, {}, Wrapf(t.err))
          ELSE IF ~renders
          THEN Returns("SendEmail", params, {}, Wrapf(Raw("template: parse failed")))
          ELSE IF tr.err # NoErr
          THEN Returns("SendEmail", params, {}, Wrapf(tr.err))
          ELSE IF pw.err # NoErr
          THEN Returns("SendEmail", params, {}, pw.err)
          ELSE Returns("SendEmail", params, {AWSConfig(trObj, pw.plaintext)},
                       IF sent THEN NoErr ELSE Raw("smtp: send failed"))
    /\ prevSet' = {}
    /\ UNCHANGED <<store, encryptionKey, db, clock, pc, call, ctxDone, txn, loc, fn, rolledBack>>

\* ------------------------------------------------- callers of the secrets
\* the Manager of the call that returned last
LastManager == IF last.op = "New" THEN last.val ELSE {last.params.Manager}
\* the calls on a Manager, after each of which its caller can encrypt again
ManagerOps == {"New", "Encrypt", "EncryptHexEncode", "Decrypt", "HexDecodeDecrypt"}

\* a step of a caller of the secrets package: nothing of the Store changes
SecretsStep ==
    /\ \A c \in Callers : pc[c] = "idle"
    /\ UNCHANGED <<store, encryptionKey, db, clock, pc, call, ctxDone, txn, loc, fn, prevSet, rolledBack>>

\* a caller builds a Manager
ManagerNew(m, key) ==
    /\ Returns("New", [Mode |-> m, Key |-> key], New(m, key).mgr, New(m, key).err)
    /\ SecretsStep

\* a caller encrypts with the Manager it holds; val is the (nonce, ciphertext)
\* pair returned
ManagerEncrypt(plaintext, rnd) ==
    /\ last.op \in ManagerOps
    /\ \E m \in LastManager :
          LET res == Encrypt(m, plaintext, rnd)
          IN Returns("Encrypt", [Manager |-> m, Plaintext |-> plaintext, Tampered |-> "none"],
                     IF res.ok THEN {[nonce |-> res.nonce, ciphertext |-> res.ciphertext]}
                     ELSE {}, res.err)
    /\ SecretsStep

ManagerEncryptHexEncode(plaintext, rnd) ==
    /\ last.op \in ManagerOps
    /\ \E m \in LastManager :
          LET res == EncryptHexEncode(m, plaintext, rnd)
          IN Returns("EncryptHexEncode",
                     [Manager |-> m, Plaintext |-> plaintext, Tampered |-> "none"],
                     IF res.ok THEN {[nonce |-> res.nonce, ciphertext |-> res.ciphertext]}
                     ELSE {}, res.err)
    /\ SecretsStep

\* the pair Encrypt returned reaches its reader with one bit changed: bit k of
\* byte i of the nonce, or of the ciphertext
Tamper(part, i, k) ==
    /\ last.op = "Encrypt"
    /\ \E pair \in last.val :
          /\ i \in 1..Len(pair[part])
          /\ last' = [last EXCEPT !.op = "Tamper", !.params.Tampered = part,
                                  !.val = {[pair EXCEPT ![part] = FlipBit(@, i, k)]}]
    /\ SecretsStep

\* the reader decrypts the pair it got with the same Manager
ManagerDecrypt ==
    /\ last.op \in {"Encrypt", "Tamper"}
    /\ \E pair \in last.val :
          LET res == Decrypt(last.params.Manager, pair.nonce, pair.ciphertext)
          IN Returns("Decrypt", last.params,
                     IF res.ok THEN {res.plaintext} ELSE {}, res.err)
    /\ SecretsStep

ManagerHexDecodeDecrypt ==
    /\ last.op = "EncryptHexEncode"
    /\ \E pair \in last.val :
          LET res == HexDecodeDecrypt(last.params.Manager, pair.nonce, pair.ciphertext)
          IN Returns("HexDecodeDecrypt", last.params,
                     IF res.ok THEN {res.plaintext} ELSE {}, res.err)
    /\ SecretsStep

\* ------------------------------------------------------- the specifications
\* One caller uses every operation of the Store, one call after the other.
Next ==
    \E c \in {"c1"} :
        \/ \E params \in AddProject(ProjectIDs, Names) : InsertProject(c, params)
        \/ \E p \in ProjectIDs : GetProject(c, p)
        \/ \E params \in AddSMTPTransport(ProjectIDs, TransportIDs, Names, ReplyTos, EncryptedPasswords) :
               InsertSMTPTransport(c, params)
        \/ \E p \in ProjectIDs, id \in TransportIDs : GetSMTPTransport(c, id, p)
        \/ \E params \in AddGroup(ProjectIDs, GroupIDs, Names) : InsertGroup(c, params)
        \/ \E p \in ProjectIDs, g \in GroupIDs : GetGroup(c, p, g)
        \/ \E params \in TemplateParams : InsertTemplate(c, params)
        \/ \E p \in ProjectIDs, t \in TemplateIDs : GetTemplate(c, p, t)
        \/ \E params \in TemplateParams : BeginTx(c, params)
        \/ ChkDigest(c)
        \/ TxInsertTemplate(c)
        \/ TxUpdateTemplate(c)
        \/ TxCommit(c)
        \/ TxRollback(c)
        \/ Cancel(c)
        \/ AwaitDone(c)

Spec == Init /\ [][Next]_vars

\* A database file that exists already and holds a project with a group.
ExistingDB ==
    [projects |-> {[project_id |-> "p1", project_name |-> "name", description |-> "name",
                    created_at |-> 1]},
     smtp_transports |-> {},
     groups |-> {[group_id |-> "g1", project_id |-> "p1", group_name |-> "name",
                  created_at |-> 2, modified_at |-> 2]},
     templates |-> {}]

InitConcurrent ==
    /\ store \in {NewEmailService, NewTestStore}
    /\ encryptionKey = TestKey
    /\ db = ExistingDB
    /\ clock = 2
    /\ last = NoLast
    /\ pc = [c \in Callers |-> "idle"]
    /\ call = [c \in Callers |-> NoCall]
    /\ ctxDone = [c \in Callers |-> FALSE]
    /\ txn = [c \in Callers |-> NoTx]
    /\ loc = [c \in Callers |-> NoLoc]
    /\ fn = [c \in Callers |-> NoFn]
    /\ prevSet = {}
    /\ rolledBack = {}

\* the SetTemplate calls the concurrent callers make: all on one template
ConcurrentParams == {params \in TemplateParams : params.TemplateID = "t1"}

\* The callers set and get one project's templates concurrently.
NextConcurrent ==
    \E c \in Callers :
        \/ \E p \in ProjectIDs : GetProject(c, p)
        \/ \E p \in ProjectIDs, id \in TransportIDs : GetSMTPTransport(c, id, p)
        \/ \E p \in ProjectIDs, g \in GroupIDs : GetGroup(c, p, g)
        \/ \E p \in ProjectIDs, t \in TemplateIDs : GetTemplate(c, p, t)
        \/ \E params \in ConcurrentParams : BeginTx(c, params)
        \/ ChkDigest(c)
        \/ TxInsertTemplate(c)
        \/ TxUpdateTemplate(c)
        \/ TxCommit(c)
        \/ TxRollback(c)
        \/ Cancel(c)
        \/ AwaitDone(c)

SpecConcurrent == InitConcurrent /\ [][NextConcurrent]_vars

\* a second project and a second group, for the operations that must tell
\* one project's rows from another's
RepositoryProjectIDs == ProjectIDs \cup {"p2"}
RepositoryGroupIDs == GroupIDs \cup {"g2"}

\* the template parameters of the calls on two projects and two groups: one
\* template identifier, its text body changing
RepositoryParams ==
    {[ProjectID |-> p, GroupID |-> g, TemplateID |-> "t1",
      Txt |-> x, TxtDigest |-> Digest(x), HTML |-> "<a>", HTMLDigest |-> Digest("<a>")] :
        p \in RepositoryProjectIDs, g \in RepositoryGroupIDs, x \in TxtBodies}

\* One caller uses every operation of the Store on two projects.
NextRepository ==
    \E c \in {"c1"} :
        \/ \E params \in AddProject(RepositoryProjectIDs, Names) : InsertProject(c, params)
        \/ \E p \in RepositoryProjectIDs : GetProject(c, p)
        \/ \E params \in AddSMTPTransport(RepositoryProjectIDs, TransportIDs, Names, ReplyTos, EncryptedPasswords) :
               InsertSMTPTransport(c, params)
        \/ \E p \in RepositoryProjectIDs, id \in TransportIDs : GetSMTPTransport(c, id, p)
        \/ \E params \in AddGroup(RepositoryProjectIDs, RepositoryGroupIDs, Names) :
               InsertGroup(c, params)
        \/ \E p \in RepositoryProjectIDs, g \in RepositoryGroupIDs : GetGroup(c, p, g)
        \/ \E params \in RepositoryParams : InsertTemplate(c, params)
        \/ \E p \in RepositoryProjectIDs, t \in TemplateIDs : GetTemplate(c, p, t)
        \/ \E params \in RepositoryParams : BeginTx(c, params)
        \/ ChkDigest(c)
        \/ TxInsertTemplate(c)
        \/ TxUpdateTemplate(c)
        \/ TxCommit(c)
        \/ TxRollback(c)
        \/ Cancel(c)
        \/ AwaitDone(c)

\* the Store of a Service on a database file that was just created
InitRepository == Init /\ store = NewEmailService

SpecRepository == InitRepository /\ [][NextRepository]_vars

\* the names and the reply-to lists of the inserts whose returned records are
\* compared with their input: the empty name, the nil list, the empty list and
\* lists of two addresses in both orders
InsertNames == Names \cup {""}
InsertReplyTos ==
    ReplyTos \cup {NilArray, Array(<< >>), Array(<<"reply", "other">>),
                  Array(<<"other", "reply">>)}

\* the templates inserted: both identifiers, the text body varying
InsertParams == {params \in TemplateParams : params.HTML = "<a>"}

\* One caller inserts projects, transports, groups and templates.
NextInsert ==
    \E c \in {"c1"} :
        \/ \E params \in AddProject(ProjectIDs, InsertNames) : InsertProject(c, params)
        \/ \E params \in AddSMTPTransport(ProjectIDs, TransportIDs, InsertNames,
                                           InsertReplyTos, EncryptedPasswords) :
               InsertSMTPTransport(c, params)
        \/ \E params \in AddGroup(ProjectIDs, GroupIDs, InsertNames) : InsertGroup(c, params)
        \/ \E params \in InsertParams : InsertTemplate(c, params)

SpecInsert == Init /\ [][NextInsert]_vars

\* the positions of the bits of a nonce and of the ciphertexts encrypted
TamperBytes == 1..(7 + TagSize)
TamperBits == 0..7

\* Callers of the secrets package build Managers, encrypt, and decrypt what
\* they encrypted, as it was returned or with one bit changed.
NextSecrets ==
    \/ \E m \in Modes, key \in Keys : ManagerNew(m, key)
    \/ \E plaintext \in Plaintexts, rnd \in RandReads : ManagerEncrypt(plaintext, rnd)
    \/ \E plaintext \in Plaintexts, rnd \in RandReads : ManagerEncryptHexEncode(plaintext, rnd)
    \/ \E part \in {"nonce", "ciphertext"}, i \in TamperBytes, k \in TamperBits :
          Tamper(part, i, k)
    \/ ManagerDecrypt
    \/ ManagerHexDecodeDecrypt

SpecSecrets == InitRepository /\ [][NextSecrets]_vars

\* the keys a Service is built with: WithEncryptionKey takes any
ServiceKeys == {TestKey, OtherKey, SubSeq(TestKey, 1, KeySize - 1)}

\* the emails sent: from the template t1 of a project, by a transport
SendEmailParams ==
    {[ProjectID |-> p, TemplateID |-> "t1", TransportID |-> id] :
        p \in ProjectIDs, id \in TransportIDs}

\* the template the emails are sent from
ServiceTemplates ==
    {params \in TemplateParams :
        params.TemplateID = "t1" /\ params.Txt = "A" /\ params.HTML = "<a>"}

\* A Service creates transports and sends emails; its Store holds the
\* project, the group and the template they need.
NextService ==
    \E c \in {"c1"} :
        \/ \E params \in AddProject(ProjectIDs, Names) : InsertProject(c, params)
        \/ \E params \in AddGroup(ProjectIDs, GroupIDs, Names) : InsertGroup(c, params)
        \/ \E params \in ServiceTemplates : InsertTemplate(c, params)
        \/ \E params \in CreateSMTPTransportParams(ProjectIDs, TransportIDs, Plaintexts),
              rnd \in RandReads : CreateSMTPTransport(c, params, rnd)
        \/ \E params \in SendEmailParams, renders \in BOOLEAN, sent \in BOOLEAN :
              SendEmail(c, params, renders, sent)

InitService ==
    /\ store = NewEmailService
    /\ encryptionKey \in ServiceKeys
    /\ db = EmptyDB
    /\ clock = Epoch
    /\ last = NoLast
    /\ pc = [c \in Callers |-> "idle"]
    /\ call = [c \in Callers |-> NoCall]
    /\ ctxDone = [c \in Callers |-> FALSE]
    /\ txn = [c \in Callers |-> NoTx]
    /\ loc = [c \in Callers |-> NoLoc]
    /\ fn = [c \in Callers |-> NoFn]
    /\ prevSet = {}
    /\ rolledBack = {}

SpecService == InitService /\ [][NextService]_vars

\* the SetTemplate calls of the writers: one template, its text body changing
WritersParams == {params \in ConcurrentParams : params.HTML = "<a>"}

\* a SetTemplate call begins while the clock leaves a tick to every call that
\* is under way
SetTemplateBegins(c, params) ==
    /\ clock + Cardinality({o \in Callers : pc[o] # "idle"}) < MaxClock
    /\ BeginTx(c, params)

\* The callers set one template concurrently, and cancel as they like.
NextWriters ==
    \E c \in Callers :
        \/ \E params \in WritersParams : SetTemplateBegins(c, params)
        \/ ChkDigest(c)
        \/ TxInsertTemplate(c)
        \/ TxUpdateTemplate(c)
        \/ TxCommit(c)
        \/ TxRollback(c)
        \/ Cancel(c)
        \/ AwaitDone(c)

\* A call that is under way goes on: its goroutine runs each statement of fn,
\* then Commit or Rollback, and the watcher of a transaction runs once its
\* context is done.  Commit gets the file although readers come and go: a
\* connection that waits for the EXCLUSIVE lock holds PENDING, which admits no
\* new SHARED lock.  Nothing makes a caller begin a call or cancel one.
FairWriters ==
    \A c \in Callers :
        /\ WF_vars(ChkDigest(c))
        /\ WF_vars(TxInsertTemplate(c))
        /\ WF_vars(TxUpdateTemplate(c))
        /\ SF_vars(TxCommit(c))
        /\ WF_vars(TxRollback(c))
        /\ WF_vars(AwaitDone(c))

SpecWriters == InitConcurrent /\ [][NextWriters]_vars /\ FairWriters

\* ------------------------------------------------------------------- claims
\* the stored template row of a call's (ProjectID, TemplateID)
Stored(d, params) == TemplateRows(d.templates, params.ProjectID, params.TemplateID)

\* modified_at of the stored row, Epoch when there is none
StoredStamp(d, params) ==
    IF Stored(d, params) = {} THEN Epoch
    ELSE (CHOOSE r \in Stored(d, params) : TRUE).modified_at

\* a SetTemplate call returns with this step, its context not cancelled
SetTemplateReturned == last'.op = "SetTemplate" /\ ~last'.cancelled

\* C3: in a Service built by NewEmailService the Store's write handle is the
\* one limited to a single open connection and its read handle the one with
\* many, so at most one write transaction is open at any time.
C3_SingleWriteHandle ==
    store = NewEmailService =>
        /\ MaxOpenConns(store.readwrite) = 1
        /\ MaxOpenConns(store.readonly) > 1
        /\ Cardinality({c \in Callers : txn[c].state = "open"}) <= 1

\* C6: a SetTemplate call (not cancelled) whose ProjectID has no project row
\* returns no Template and an error of code ProjectNotFound, and no step of the
\* call changes any table.
C6_ProjectNotFound ==
    [][\A c \in Callers :
         (pc[c] # "idle" /\ ProjectRows(db, call[c].ProjectID) = {}) =>
            /\ db' = db
            /\ SetTemplateReturned =>
                  ErrCode(last'.err) = ErrProjectNotFound /\ last'.val = {}]_vars

\* C6 happens: SetTemplate has just returned ProjectNotFound for a missing project
C6_Witness ==
    /\ last.op = "SetTemplate"
    /\ ~last.cancelled
    /\ ProjectRows(db, last.params.ProjectID) = {}
    /\ ErrCode(last.err) = ErrProjectNotFound

\* the row SetTemplate's parameters describe, whatever its times
HoldsParams(row, params) ==
    /\ row.template_id = params.TemplateID
    /\ row.group_id = params.GroupID
    /\ row.project_id = params.ProjectID
    /\ row.txt = params.Txt
    /\ row.txt_digest = params.TxtDigest
    /\ row.html = params.HTML
    /\ row.html_digest = params.HTMLDigest

\* the step inserts exactly one template row, which holds the returned call's
\* parameters with created_at = modified_at, and the call returns that row
InsertsAndReturnsOneRow ==
    /\ last'.err = NoErr
    /\ \E row \in db'.templates :
          /\ row \notin db.templates
          /\ db' = [db EXCEPT !.templates = @ \cup {row}]
          /\ HoldsParams(row, last'.params)
          /\ row.created_at = row.modified_at
          /\ last'.val = {row}

GroupExists(d, params) ==
    \E g \in d.groups : g.group_id = params.GroupID /\ g.project_id = params.ProjectID

\* C4 as stated: when the project exists and no template row has
\* (TemplateID, ProjectID), SetTemplate inserts exactly one row with the
\* supplied bodies and digests under the supplied group, CreatedAt equal to
\* ModifiedAt, and returns it.
C4_InsertsAbsent ==
    [][(/\ SetTemplateReturned
        /\ ProjectRows(db, last'.params.ProjectID) # {}
        /\ Stored(db, last'.params) = {})
       => InsertsAndReturnsOneRow]_vars

\* C4, amended: the same when also the supplied group exists in the project
\* (and the call is not cancelled); without the group the insert violates the
\* templates table's foreign key and SetTemplate fails.
C4_InsertsAbsentInGroup ==
    [][(/\ SetTemplateReturned
        /\ ProjectRows(db, last'.params.ProjectID) # {}
        /\ GroupExists(db, last'.params)
        /\ Stored(db, last'.params) = {})
       => InsertsAndReturnsOneRow]_vars

\* C4 happens: SetTemplate has just returned the row it inserted
C4_Witness ==
    /\ last.op = "SetTemplate"
    /\ last.err = NoErr
    /\ \E row \in last.val :
          /\ row \in db.templates
          /\ row.created_at = clock
          /\ row.modified_at = clock

\* C1: once SetTemplate has succeeded, an immediately following SetTemplate
\* call with the same arguments rewrites no row, and returns the stored
\* CreatedAt and ModifiedAt and the digests the first call returned.
C1_Idempotent ==
    [][\A first \in prevSet :
         (SetTemplateReturned /\ last'.params = first.params) =>
            /\ db' = db
            /\ last'.err = NoErr
            /\ last'.val # {}
            /\ \A r \in last'.val :
                  /\ \E s \in Stored(db, first.params) :
                        r.created_at = s.created_at /\ r.modified_at = s.modified_at
                  /\ \A r0 \in first.val :
                        r.txt_digest = r0.txt_digest /\ r.html_digest = r0.html_digest]_vars

\* C5: when the template exists and a supplied digest differs from the stored
\* one, SetTemplate stores the supplied bodies and digests with a ModifiedAt
\* strictly greater than the one stored before; a body whose digest did not
\* differ, and its digest, are the same after the call as before.
C5_ChangeDetection ==
    [][SetTemplateReturned =>
       \A s \in Stored(db, last'.params) :
         (s.txt_digest # last'.params.TxtDigest \/ s.html_digest # last'.params.HTMLDigest)
         => /\ last'.err = NoErr
            /\ Stored(db', last'.params) # {}
            /\ \A n \in Stored(db', last'.params) :
                  /\ n.txt = last'.params.Txt
                  /\ n.txt_digest = last'.params.TxtDigest
                  /\ n.html = last'.params.HTML
                  /\ n.html_digest = last'.params.HTMLDigest
                  /\ n.modified_at > s.modified_at
                  /\ s.txt_digest = last'.params.TxtDigest =>
                        n.txt = s.txt /\ n.txt_digest = s.txt_digest
                  /\ s.html_digest = last'.params.HTMLDigest =>
                        n.html = s.html /\ n.html_digest = s.html_digest]_vars

\* C7: when the function passed to execTx returns an error, no write is left
\* in the database and execTx returns that error; when it returns nil, the
\* transaction is committed and what it wrote is in the database.
C7_Atomic ==
    [][last'.op = "SetTemplate" =>
         IF last'.fnErr # NoErr
         THEN last'.err = last'.fnErr /\ db' = db
         ELSE last'.err = NoErr /\ last'.val \subseteq db'.templates]_vars

\* C8: when the function passed to execTx fails and the rollback fails too,
\* the error returned has the code of the function's error.
C8_RollbackFailureKeepsCode ==
    (last.op = "SetTemplate" /\ last.fnErr # NoErr /\ last.rbErr # NoErr) =>
        ErrCode(last.err) = ErrCode(last.fnErr)

\* the calls that stand between their digest check and their commit, with
\* nothing cancelled
InFlight == {c \in Callers : pc[c] \in {"insert", "update", "commit"} /\ ~ctxDone[c]}

\* C2: while a SetTemplate call stands between its digest check and its
\* commit, the stored row of its (ProjectID, TemplateID) is the one the check
\* saw: no other call's write reaches it.  And right after a SetTemplate call
\* commits, the stored bodies and digests are the ones that call supplied, so
\* the order of the commits is a serial order of the calls.
C2_NoLostUpdate ==
    /\ \A c \in InFlight : StoredStamp(db, call[c]) = loc[c].modified_at
    /\ (last.op = "SetTemplate" /\ last.err = NoErr) =>
          /\ Stored(db, last.params) # {}
          /\ \A r \in Stored(db, last.params) :
                /\ r.txt = last.params.Txt
                /\ r.txt_digest = last.params.TxtDigest
                /\ r.html = last.params.HTML
                /\ r.html_digest = last.params.HTMLDigest

\* C2 happens: two calls on one template are between check and commit at the
\* same time, and one of them has written the row
C2_Witness ==
    \E c \in InFlight, o \in InFlight :
        /\ c # o
        /\ call[c].ProjectID = call[o].ProjectID
        /\ call[c].TemplateID = call[o].TemplateID
        /\ Written(c) # {}
        /\ pc[o] \in {"insert", "update"}

\* modified_at of the template rows written by transactions not yet committed
Uncommitted == UNION {Written(c) : c \in Callers}

\* C9: every row a Get operation returns is a row of the committed database;
\* a template it returns was not written by a transaction that is still open,
\* nor by one that was rolled back.
C9_NoDirtyRead ==
    /\ last.op = "GetProject" => last.val \subseteq db.projects
    /\ last.op = "GetSMTPTransport" =>
          \A r \in last.val : \E s \in db.smtp_transports : r = ScanTransport(s)
    /\ last.op = "GetGroup" => last.val \subseteq db.groups
    /\ last.op = "GetTemplate" =>
          \A r \in last.val :
              /\ \E s \in db.templates : r = ScanTemplate(s)
              /\ r.modified_at \notin Uncommitted \cup rolledBack

\* C9 happens: GetTemplate has returned a template while a transaction that
\* has rewritten this template is not yet committed
C9_Witness ==
    /\ last.op = "GetTemplate"
    /\ last.val # {}
    /\ \E c \in Callers :
          /\ Written(c) # {}
          /\ call[c].ProjectID = last.params.ProjectID
          /\ call[c].TemplateID = last.params.TemplateID

\* C10: a SetTemplate call whose context was cancelled after its transaction
\* began and before it committed returns an error and no Template, and no row
\* written by a transaction that was rolled back is in the database.
C10_Cancellation ==
    /\ (last.op = "SetTemplate" /\ last.cancelled) => (last.err # NoErr /\ last.val = {})
    /\ \A r \in db.templates : r.modified_at \notin rolledBack

\* C10 happens: a cancelled SetTemplate has returned, and what its transaction
\* wrote was rolled back
C10_Witness ==
    /\ last.op = "SetTemplate"
    /\ last.cancelled
    /\ clock \in rolledBack

\* every transport and every group is in an existing project, every template
\* in an existing group of its project
ReferentialIntegrity(d) ==
    /\ \A r \in d.smtp_transports : ProjectRows(d, r.project_id) # {}
    /\ \A r \in d.groups : ProjectRows(d, r.project_id) # {}
    /\ \A r \in d.templates : GroupRows(d, r.project_id, r.group_id) # {}

\* an insert of a transport, a group or a template returns with this step
ChildInsertReturned == last'.op \in {"InsertSMTPTransport", "InsertGroup", "InsertTemplate"}

\* C11: after every step of every operation, successful or failed, each
\* transport and group row references an existing project and each template
\* row an existing group of its project; and an insert of a transport, group
\* or template against a ProjectID without project row fails and writes nothing.
C11_ReferentialIntegrity ==
    [][/\ ReferentialIntegrity(db')
       /\ (ChildInsertReturned /\ ProjectRows(db, last'.params.ProjectID) = {}) =>
             (db' = db /\ last'.err # NoErr /\ last'.val = {})]_vars

\* C11 happens: an insert of a template into a missing project has failed
\* while another project holds a group
C11_Witness ==
    /\ last.op = "InsertTemplate"
    /\ last.err # NoErr
    /\ ProjectRows(db, last.params.ProjectID) = {}
    /\ db.groups # {}

\* C12: after every step of every InsertTemplate and SetTemplate call, calls
\* that name another group included, no two template rows have the same
\* (TemplateID, ProjectID).
C12_TemplateUnique ==
    \A r1 \in db.templates, r2 \in db.templates :
        (r1.template_id = r2.template_id /\ r1.project_id = r2.project_id) => r1 = r2

\* C12 happens: InsertTemplate has returned from a call that names another
\* existing group than the one the stored template is in
C12_Witness ==
    /\ last.op = "InsertTemplate"
    /\ GroupExists(db, last.params)
    /\ \E r \in Stored(db, last.params) : r.group_id # last.params.GroupID

\* C13: InsertProject with a ProjectID that has a project row returns no
\* Project and an error of code ProjectAlreadyExists, and changes no row.
C13_ProjectAlreadyExists ==
    [][(last'.op = "InsertProject" /\ ProjectRows(db, last'.params.ProjectID) # {}) =>
          /\ ErrCode(last'.err) = ErrProjectAlreadyExists
          /\ last'.val = {}
          /\ db' = db]_vars

\* C13 happens: InsertProject has been refused for a ProjectID that is stored
C13_Witness ==
    /\ last.op = "InsertProject"
    /\ last.err # NoErr
    /\ ProjectRows(db, last.params.ProjectID) # {}

\* C14: InsertSMTPTransport with a ProjectID that has no project row returns
\* no transport and an error of code ProjectNotFound.
C14_TransportProjectNotFound ==
    (last.op = "InsertSMTPTransport" /\ ProjectRows(db, last.params.ProjectID) = {}) =>
        (ErrCode(last.err) = ErrProjectNotFound /\ last.val = {})

\* the project row of a returned call's ProjectID is missing
ProjectMissing == \A r \in db.projects : r.project_id # last.params.ProjectID

\* C15: GetSMTPTransport on a project without project row fails with code
\* ProjectNotFound, and on an existing project with a transport identifier
\* that has no row in the project with code TransportNotFound.
C15_TransportNotFound ==
    last.op = "GetSMTPTransport" =>
        IF ProjectMissing
        THEN ErrCode(last.err) = ErrProjectNotFound
        ELSE (\A r \in db.smtp_transports :
                  ~(r.smtp_transport_id = last.params.SMTPTransportID
                    /\ r.project_id = last.params.ProjectID))
             => ErrCode(last.err) = ErrSMTPTransportNotFound

\* C16: InsertGroup with a ProjectID that has no project row returns no group
\* and an error in which errors.As finds a *store.Error of code ProjectNotFound.
C16_GroupProjectNotFound ==
    (last.op = "InsertGroup" /\ ProjectMissing) =>
        (ErrCode(last.err) = ErrProjectNotFound /\ last.val = {})

\* C16 happens: InsertGroup has failed on a missing project
C16_Witness ==
    /\ last.op = "InsertGroup"
    /\ ProjectMissing
    /\ last.err # NoErr

\* C17: GetGroup on a project without project row returns no group and code
\* ProjectNotFound, whatever groups other projects hold; on an existing
\* project with a group identifier that has no row in it, no group and code
\* GroupNotFound.
C17_GroupNotFound ==
    last.op = "GetGroup" =>
        IF ProjectMissing
        THEN ErrCode(last.err) = ErrProjectNotFound /\ last.val = {}
        ELSE (\A r \in db.groups :
                  ~(r.group_id = last.params.GroupID /\ r.project_id = last.params.ProjectID))
             => (ErrCode(last.err) = ErrGroupNotFound /\ last.val = {})

\* C17 happens: GetGroup has reported a missing group of an existing project
\* while another project holds a group with that identifier
C17_Witness ==
    /\ last.op = "GetGroup"
    /\ ErrCode(last.err) = ErrGroupNotFound
    /\ \E r \in db.groups : r.group_id = last.params.GroupID

\* C18: GetTemplate on a project without project row returns no template and
\* code ProjectNotFound; on an existing project with a template identifier
\* that has no row in it, no template and code TemplateNotFound.
C18_TemplateNotFound ==
    last.op = "GetTemplate" =>
        IF ProjectMissing
        THEN ErrCode(last.err) = ErrProjectNotFound /\ last.val = {}
        ELSE (\A r \in db.templates :
                  ~(r.template_id = last.params.TemplateID
                    /\ r.project_id = last.params.ProjectID))
             => (ErrCode(last.err) = ErrTemplateNotFound /\ last.val = {})

\* C18 happens: GetTemplate has reported a missing template of an existing
\* project while another project holds a template with that identifier
C18_Witness ==
    /\ last.op = "GetTemplate"
    /\ ErrCode(last.err) = ErrTemplateNotFound
    /\ \E r \in db.templates : r.template_id = last.params.TemplateID

\* C19: InsertTemplate with a ProjectID that has no project row fails with an
\* error of code ProjectNotFound.
C19_TemplateProjectNotFound ==
    (last.op = "InsertTemplate" /\ ProjectMissing) =>
        (ErrCode(last.err) = ErrProjectNotFound /\ last.val = {})

\* C20: every operation returns either one entity and a nil error, or no
\* entity and an error; SetTemplate too when its function succeeded and the
\* commit failed.
C20_ValueOrError ==
    last.op # "none" =>
        \/ Cardinality(last.val) = 1 /\ last.err = NoErr
        \/ last.val = {} /\ last.err # NoErr

\* C20 happens: SetTemplate has returned after its function succeeded and the
\* commit failed
C20_Witness ==
    /\ last.op = "SetTemplate"
    /\ last.fnErr = NoErr
    /\ last.err # NoErr

\* the fields of a group GetGroup and InsertGroup both return
SameGroup(a, b) ==
    /\ a.group_id = b.group_id
    /\ a.project_id = b.project_id
    /\ a.group_name = b.group_name
    /\ a.created_at = b.created_at
    /\ a.modified_at = b.modified_at

\* the fields of a template GetTemplate and InsertTemplate both return
SameTemplate(a, b) ==
    /\ a.template_id = b.template_id
    /\ a.group_id = b.group_id
    /\ a.project_id = b.project_id
    /\ a.txt = b.txt
    /\ a.html = b.html
    /\ a.created_at = b.created_at
    /\ a.modified_at = b.modified_at

\* C21: when InsertGroup or InsertTemplate has succeeded, a GetGroup or
\* GetTemplate call for the inserted identifiers that follows it returns a
\* record with the identifiers, name or bodies, CreatedAt and ModifiedAt of the
\* record the insert returned.
C21_GetAfterInsert ==
    [][/\ (/\ last.op = "InsertGroup" /\ last.err = NoErr
           /\ last'.op = "GetGroup"
           /\ last'.params.ProjectID = last.params.ProjectID
           /\ last'.params.GroupID = last.params.GroupID)
          => /\ last'.err = NoErr
             /\ \E a \in last'.val : \A b \in last.val : SameGroup(a, b)
       /\ (/\ last.op = "InsertTemplate" /\ last.err = NoErr
           /\ last'.op = "GetTemplate"
           /\ last'.params.ProjectID = last.params.ProjectID
           /\ last'.params.TemplateID = last.params.TemplateID)
          => /\ last'.err = NoErr
             /\ \E a \in last'.val : \A b \in last.val : SameTemplate(a, b)]_vars

\* the returned call is an insert that meets no row with its key
InsertsNewRow ==
    CASE last'.op = "InsertProject" ->
            \A r \in db.projects : r.project_id # last'.params.ProjectID
      [] last'.op = "InsertSMTPTransport" ->
            \A r \in db.smtp_transports :
                ~(r.smtp_transport_id = last'.params.SMTPTransportID
                  /\ r.project_id = last'.params.ProjectID)
      [] last'.op = "InsertGroup" ->
            \A r \in db.groups :
                ~(r.group_id = last'.params.GroupID /\ r.project_id = last'.params.ProjectID)
      [] last'.op = "InsertTemplate" ->
            \A r \in db.templates :
                ~(r.template_id = last'.params.TemplateID
                  /\ r.project_id = last'.params.ProjectID)
      [] OTHER -> FALSE

\* the parent row of the returned insert exists (a project has no parent)
ParentExists ==
    CASE last'.op = "InsertProject" -> TRUE
      [] last'.op = "InsertTemplate" ->
            \E g \in db.groups :
                g.group_id = last'.params.GroupID /\ g.project_id = last'.params.ProjectID
      [] OTHER -> \E r \in db.projects : r.project_id = last'.params.ProjectID

\* the record r holds every field of the insert's parameters
HoldsInput(op, r, params) ==
    CASE op = "InsertProject" ->
            /\ r.project_id = params.ProjectID
            /\ r.project_name = params.ProjectName
            /\ r.description = params.Description
      [] op = "InsertSMTPTransport" ->
            /\ r.smtp_transport_id = params.SMTPTransportID
            /\ r.project_id = params.ProjectID
            /\ r.transport_name = params.TransportName
            /\ r.host = params.Host
            /\ r.port = params.Port
            /\ r.username = params.Username
            /\ r.encrypted_password = params.EncryptedPassword
            /\ r.email_from = params.EmailFrom
            /\ r.email_from_name = params.EmailFromName
            /\ r.email_replyto = params.EmailReplyTo
      [] op = "InsertGroup" ->
            /\ r.group_id = params.GroupID
            /\ r.project_id = params.ProjectID
            /\ r.group_name = params.GroupName
      [] op = "InsertTemplate" -> HoldsParams(r, params)

\* C22: InsertProject, InsertSMTPTransport, InsertGroup and InsertTemplate
\* under an existing parent, with a key that is not stored yet, return one
\* record whose every caller-supplied field equals the input (EmailFromName and
\* the ordered EmailReplyTo list included), with CreatedAt and, where the
\* record has one, ModifiedAt equal to the time of the insert.
C22_InsertReturnsInput ==
    [][(InsertsNewRow /\ ParentExists) =>
          /\ last'.err = NoErr
          /\ Cardinality(last'.val) = 1
          /\ \A r \in last'.val :
                /\ HoldsInput(last'.op, r, last'.params)
                /\ r.created_at = Now
                /\ last'.op # "InsertProject" => r.modified_at = Now]_vars

\* C22 happens: InsertSMTPTransport has returned a transport inserted with a
\* reply-to list of two addresses
C22_Witness ==
    /\ last.op = "InsertSMTPTransport"
    /\ last.err = NoErr
    /\ Len(last.params.EmailReplyTo.elems) = 2
    /\ \E r \in last.val : r \in {ScanTransport(s) : s \in db.smtp_transports}

\* C25: secrets.New fails, returning no Manager, when the key is not exactly
\* 16 bytes long or the mode is not AESGCMWithRandomNonce, and returns a
\* Manager without error otherwise.
C25_NewChecksKeyAndMode ==
    last.op = "New" =>
        IF Len(last.params.Key) = 16 /\ last.params.Mode = AESGCMWithRandomNonce
        THEN last.err = NoErr /\ last.val = {[mode |-> last.params.Mode, key |-> last.params.Key]}
        ELSE last.err # NoErr /\ last.val = {}

\* C25 happens: New has refused a key of AES-256's size in the supported mode
C25_Witness ==
    /\ last.op = "New"
    /\ last.params.Mode = AESGCMWithRandomNonce
    /\ Len(last.params.Key) = 32
    /\ last.err # NoErr

\* C23: Decrypt of the (nonce, ciphertext) pair Encrypt returned, by the same
\* Manager, returns the plaintext encrypted and no error, for every plaintext
\* (the empty one too) and every 16-byte key; so does HexDecodeDecrypt of the
\* pair EncryptHexEncode returned; on every call, whatever was encrypted and
\* decrypted before.
C23_RoundTrip ==
    /\ (last.op = "Decrypt" /\ last.params.Tampered = "none") =>
          (last.err = NoErr /\ last.val = {last.params.Plaintext})
    /\ last.op = "HexDecodeDecrypt" =>
          (last.err = NoErr /\ last.val = {last.params.Plaintext})

\* C23 happens: the empty plaintext has come back from Decrypt
C23_Witness ==
    /\ last.op = "Decrypt"
    /\ last.params.Tampered = "none"
    /\ last.params.Plaintext = << >>
    /\ last.val = {<< >>}

\* C24: Decrypt of a pair Encrypt returned, with one bit of the nonce or of
\* the ciphertext changed, returns the authentication error and no plaintext;
\* Decrypt never returns another plaintext than the one encrypted.
C24_TamperDetection ==
    last.op = "Decrypt" =>
        /\ last.params.Tampered # "none" => (last.err = errOpen /\ last.val = {})
        /\ last.val \subseteq {last.params.Plaintext}

\* C24 happens: Decrypt has refused a pair whose nonce had one bit changed
C24_Witness ==
    /\ last.op = "Decrypt"
    /\ last.params.Tampered = "nonce"
    /\ last.err = errOpen

\* the error SendEmail returns is none, or one of the Store, the templating
\* engine or the mail transport: not one of splitting, decoding or decrypting
NoDecryptError(err) ==
    \/ err = NoErr
    \/ Head(err).kind = "Wrapf"
    \/ err = Raw("smtp: send failed")

\* C26: every EncryptedPassword that CreateSMTPTransport writes is the 24 hex
\* characters of a 12-byte nonce followed by the hex text of the ciphertext;
\* split at offset 24 as SendEmail splits it, it decrypts with the Service's
\* key to the password supplied; and a SendEmail that follows hands that
\* password to the mail transport and never fails in the decryption.
C26_CredentialFormat ==
    [][/\ (last'.op = "CreateSMTPTransport" /\ last'.err = NoErr) =>
            \E row \in db'.smtp_transports \ db.smtp_transports :
                LET ep == row.encrypted_password
                    nonce == HexDecodeString(SubSeq(ep, 1, 24))
                    ciphertext == HexDecodeString(SubSeq(ep, 25, Len(ep)))
                IN /\ Len(ep) >= 24
                   /\ nonce.err = NoErr
                   /\ Len(nonce.bytes) = 12
                   /\ HexEncode(nonce.bytes) = SubSeq(ep, 1, 24)
                   /\ ciphertext.err = NoErr
                   /\ HexEncode(ciphertext.bytes) = SubSeq(ep, 25, Len(ep))
                   /\ DecryptPassword(encryptionKey, ep) =
                         [plaintext |-> last'.params.Password, ok |-> TRUE, err |-> NoErr]
       /\ (/\ last.op = "CreateSMTPTransport" /\ last.err = NoErr
           /\ last'.op = "SendEmail"
           /\ last'.params.ProjectID = last.params.ProjectID
           /\ last'.params.TransportID = last.params.ID
           /\ last'.val # {})
          => \A cfg \in last'.val : cfg.Password = last.params.Password
       /\ last'.op = "SendEmail" => NoDecryptError(last'.err)]_vars

\* C26 happens: SendEmail has sent with the decrypted password "secret1" of a
\* stored transport
C26_Witness ==
    /\ last.op = "SendEmail"
    /\ last.err = NoErr
    /\ db.smtp_transports # {}
    /\ \E cfg \in last.val : Len(cfg.Password) = 7

\* ---------------------------------------------------------------------- C27
\* the template row the call of params is about
IsTarget(r, params) ==
    r.template_id = params.TemplateID /\ r.project_id = params.ProjectID

\* C27: a SetTemplate call that returns without error on a template that
\* exists leaves the row's created_at and group_id as they were, whatever
\* GroupID the call supplied, returns them, and leaves every other template
\* row and every project, group and transport row unchanged.
C27_UpdateFrame ==
    [][(/\ last'.op = "SetTemplate" /\ last'.err = NoErr
        /\ \E r \in db.templates : IsTarget(r, last'.params))
       => /\ db'.projects = db.projects
          /\ db'.groups = db.groups
          /\ db'.smtp_transports = db.smtp_transports
          /\ Cardinality(db'.templates) = Cardinality(db.templates)
          /\ \A r \in db.templates :
                IF IsTarget(r, last'.params)
                THEN /\ \E n \in db'.templates :
                            /\ IsTarget(n, last'.params)
                            /\ n.created_at = r.created_at
                            /\ n.group_id = r.group_id
                     /\ \A v \in last'.val :
                            v.created_at = r.created_at /\ v.group_id = r.group_id
                ELSE r \in db'.templates]_vars

\* a SetTemplate call that named another group than the template's has returned
\* the template as it is stored, modified by this call's update
C27_Witness ==
    /\ last.op = "SetTemplate" /\ last.err = NoErr
    /\ \E v \in last.val :
          /\ v.group_id # last.params.GroupID
          /\ v.modified_at = clock /\ v.created_at < clock
          /\ v.txt = last.params.Txt
          /\ v \in db.templates

\* ---------------------------------------------------------------------- C28
\* C28: a GetTemplate call that returns a Template returns the digests of the
\* stored row; when it follows a successful InsertTemplate or SetTemplate for
\* the same (ProjectID, TemplateID), these are the digests that call was given
\* and, for SetTemplate, the digests it returned.
C28_GetTemplateDigests ==
    [][/\ last'.op = "GetTemplate" =>
            \A v \in last'.val :
                \E r \in db.templates :
                    /\ IsTarget(r, last'.params)
                    /\ v.txt_digest = r.txt_digest
                    /\ v.html_digest = r.html_digest
       /\ (/\ last.op \in {"InsertTemplate", "SetTemplate"} /\ last.err = NoErr
           /\ last'.op = "GetTemplate"
           /\ last'.params.ProjectID = last.params.ProjectID
           /\ last'.params.TemplateID = last.params.TemplateID)
          => \A v \in last'.val :
                /\ v.txt_digest = last.params.TxtDigest
                /\ v.html_digest = last.params.HTMLDigest
                /\ \A s \in last.val :
                      v.txt_digest = s.txt_digest /\ v.html_digest = s.html_digest]_vars

\* ---------------------------------------------------------------------- C29
\* the project of the returned Get call exists
GetInProject == \E r \in db.projects : r.project_id = last'.params.ProjectID

\* C29: in a project that exists, GetGroup, GetTemplate and GetSMTPTransport
\* report the child as not found exactly when the project has no row with the
\* identifier asked for, the empty string included; and the digest check of
\* SetTemplate goes to the insert exactly when the table it reads has no row
\* with the call's (TemplateID, ProjectID).
C29_SentinelAgreesWithExistence ==
    [][/\ (last'.op = "GetGroup" /\ GetInProject)
          => (ErrCode(last'.err) = ErrGroupNotFound
              <=> ~\E r \in db.groups :
                      /\ r.group_id = last'.params.GroupID
                      /\ r.project_id = last'.params.ProjectID)
       /\ (last'.op = "GetTemplate" /\ GetInProject)
          => (ErrCode(last'.err) = ErrTemplateNotFound
              <=> ~\E r \in db.templates : IsTarget(r, last'.params))
       /\ (last'.op = "GetSMTPTransport" /\ GetInProject)
          => (last'.err = ErrTransportNotFound
              <=> ~\E r \in db.smtp_transports :
                      /\ r.smtp_transport_id = last'.params.SMTPTransportID
                      /\ r.project_id = last'.params.ProjectID)
       /\ \A c \in Callers :
             (pc[c] = "chk" /\ pc'[c] \in {"insert", "update", "commit"})
             => (pc'[c] = "insert"
                 <=> ~\E r \in TemplatesView(c)' : IsTarget(r, call[c]))]_vars

\* ---------------------------------------------------------------------- C30
\* the SetTemplate call of c returns with this step
SetTemplateReturnsTo(c) == pc[c] # "idle" /\ pc'[c] = "idle"

====
